---- MODULE Spec2Model ----
(***************************************************************************)
(* Model of the service supervisor (controller.py), of the rolling sample  *)
(* window (emotion_webcam.py) and of the decision policy on that window    *)
(* (main_integrated.py).                                                   *)
(*                                                                         *)
(* controller.py is a Flask application: every request runs its handler on *)
(* a thread of its own, the handlers share the module-level dict PROCS and *)
(* take no lock.  A handler is modelled as the sequence of its reads and   *)
(* writes of shared state (PROCS, the children), one step per access.      *)
(* Time is counted in ticks of 0.1 s.                                      *)
(*                                                                         *)
(* Spec     two handler threads; one request of a run may arrive while     *)
(*          another is being served                                        *)
(* SeqSpec  one handler thread: the requests are served one after another  *)
(* FairSeqSpec  SeqSpec with a handler thread that is always scheduled     *)
(*          in the end                                                     *)
(* RaceSpec two handler threads and three requests: a start and a stop of  *)
(*          a service that was started before                              *)
(* WinSpec  the producer loop of emotion_webcam.py and its window          *)
(* ReadSpec the producer loop and a request thread of /emotion and /window *)
(* DecSpec  detect_emotion on every window of up to five samples, with     *)
(*          every answer of the oracle                                     *)
(*                                                                         *)
(* thread[t].entry, thread[t].trace and thread[t].answer, started,         *)
(* signalled, appended and reader.since record what a call found and did;  *)
(* the code has no such state.                                             *)
(***************************************************************************)
EXTENDS Integers, Sequences, FiniteSets, TLC

VARIABLES PROCS, alive, spawned, signalled, started, thread, active, budget, nreq, nover,
          emotion_window, appended, now, last_sample_time,
          frames, fetch, dpc, decision, reply,
          reader

vars == <<PROCS, alive, spawned, signalled, started, thread, active, budget, nreq, nover,
          emotion_window, appended, now, last_sample_time,
          frames, fetch, dpc, decision, reply,
          reader>>

ctlVars == <<PROCS, alive, spawned, signalled, started, thread, active, budget,
            nreq, nover>>
runVars == <<active, budget>>
winVars == <<emotion_window, appended, now, last_sample_time>>
decVars == <<frames, fetch, dpc, decision, reply>>
rdVars == <<reader>>

\* ------------------------------------------------------------------ bounds
MaxSpawn     == 3      \* children spawned in one run
MaxRequests  == 2      \* requests served in one run by concurrent threads
MaxSeqRequests == 4    \* requests served in one run, one after the other
MaxRaceRequests == 3   \* requests served in one run with a start racing a stop
StartTimeout == 3      \* ticks the /start probe waits (30.0 s in the source)
MaxAppends   == 7      \* samples appended in one run

\* --------------------------------------------------------------- constants
RequestTimeout == 4    \* requests.get(..., timeout=0.4)
PollInterval   == 2    \* time.sleep(0.2)
StatusTimeout  == 1    \* wait_for_emotion_api(timeout=0.1)
WindowCapacity == 5    \* deque(maxlen=5)
SampleInterval == 2    \* one sample per 1.0 s, in half seconds

None    == 0
Names   == {"emotion", "bot"}
Threads == {1, 2}
Pids    == 1..MaxSpawn

\* A result dict of start_process / stop_process.  An exception that leaves
\* the function produces no dict: the handler goes to pc "raised".
Result(ok, message, pid) == [ok |-> ok, message |-> message, pid |-> pid]
NoResult == [ok |-> FALSE, message |-> "unset", pid |-> None]

NoEntry == [op |-> "none", name |-> "none", procs |-> None, running |-> FALSE,
            last |-> None, nspawned |-> 0]
NoPayload == [emotion_running |-> FALSE, bot_running |-> FALSE,
              emotion_pid |-> None, bot_pid |-> None,
              emotion_api_reachable |-> FALSE, dead |-> {}]

IdleThread == [pc |-> "idle", cname |-> "emotion", p |-> None,
               res_emotion |-> NoResult, res_bot |-> NoResult,
               ok |-> FALSE, elapsed |-> 0, payload |-> NoPayload,
               entry |-> NoEntry, trace |-> <<>>, answer |-> "none"]

\* ------------------------------------------------------------ controller.py
\* PROCS = {"emotion": None, "bot": None}
InitPROCS == [n \in Names |-> None]

is_running_inverted(name) == PROCS[name] # None /\ PROCS[name] \notin alive

\* is_running(name): p = PROCS.get(name); p is not None and p.poll() is None
is_running(name) == PROCS[name] # None /\ PROCS[name] \in alive

\* the children of a service that are alive, recorded or not
LiveOf(name) == {pid \in alive : spawned[pid] = name}

\* the producer's endpoint answers only while a producer child is alive
ApiUp == LiveOf("emotion") # {}

Log(self, ev, name) == Append(self.trace, <<ev, name>>)

\* start(): res_emotion = start_process("emotion"), then the probe, then the bot
StartOrder == <<"emotion", "bot">>
StopOrderReversed == <<"emotion", "bot">>

\* stop(): res_bot = stop_process("bot"), then res_emotion = stop_process("emotion")
StopOrder == <<"bot", "emotion">>

SetRes(self, r) ==
    IF self.cname = "emotion" THEN [self EXCEPT !.res_emotion = r]
                              ELSE [self EXCEPT !.res_bot = r]

\* the handler continues after start_process(cname) returned r
StartProcessReturn(self, r) ==
    IF self.cname = StartOrder[1]
      THEN [SetRes(self, r) EXCEPT !.pc = "wait", !.elapsed = 0]
      ELSE [SetRes(self, r) EXCEPT !.pc = "start_return"]

\* the handler continues after stop_process(cname) returned r
StopProcessReturn(self, r) ==
    IF self.cname = StopOrder[1]
      THEN [SetRes([self EXCEPT !.trace = Log(self, "stop_done", self.cname)], r)
              EXCEPT !.cname = StopOrder[2], !.pc = "stop_get"]
      ELSE [SetRes([self EXCEPT !.trace = Log(self, "stop_done", self.cname)], r)
              EXCEPT !.pc = "stop_return"]

\* a request is served by a free thread; the threads are interchangeable and
\* the free thread of lowest number takes it
FreeThread(t) ==
    /\ thread[t].pc = "idle"
    /\ \A u \in active : u < t => thread[u].pc # "idle"

\* a request arrives and counts against the budget of the run; one request of
\* a run arrives while another is being served
Arrive ==
    LET busy == \E u \in active : thread[u].pc # "idle" IN
    /\ nreq < budget
    /\ busy => nover = 0
    /\ nreq' = nreq + 1
    /\ nover' = IF busy THEN 1 ELSE nover

\* what a call of start_process / stop_process finds on entry: the recorded
\* identity, whether that child is alive, the pid the latest call on the name
\* returned if that call was a successful start, and the children spawned so far
Enter(op, name) == [op |-> op, name |-> name, procs |-> PROCS[name],
                running |-> (PROCS[name] # None /\ PROCS[name] \in alive),
                last |-> started[name], nspawned |-> Len(spawned)]

\* a request arrives and its handler starts on a free thread
StartRequest(t) ==
    /\ FreeThread(t)
    /\ Arrive
    /\ thread' = [thread EXCEPT ![t] =
                    [IdleThread EXCEPT !.pc = "start_is_running",
                                       !.cname = StartOrder[1]]]
    /\ UNCHANGED <<PROCS, alive, spawned, signalled, started, runVars, winVars, decVars, rdVars>>

\* start_process, lines 25 and 28: the liveness check and the script check
StartIsRunning(t) ==
    LET self == [thread[t] EXCEPT !.entry = Enter("start", thread[t].cname),
                                  !.trace = Log(thread[t], "start_process", thread[t].cname)]
    IN
    /\ thread[t].pc = "start_is_running"
    /\ IF is_running(self.cname)
         THEN thread' = [thread EXCEPT ![t] = [self EXCEPT !.pc = "start_existing"]]
         ELSE \E exists \in BOOLEAN :
                thread' = [thread EXCEPT ![t] =
                  IF exists
                    THEN [self EXCEPT !.pc = "start_popen"]
                    ELSE StartProcessReturn(
                           [self EXCEPT !.trace = Log(self, "missing", self.cname)],
                           Result(FALSE, "Missing file", None))]
    /\ UNCHANGED <<PROCS, alive, spawned, signalled, started, runVars, nreq, nover, winVars, decVars, rdVars>>

\* start_process, line 26: the result reads PROCS[name].pid again
StartExisting(t) ==
    LET self == thread[t] IN
    /\ self.pc = "start_existing"
    /\ thread' = [thread EXCEPT ![t] =
          IF PROCS[self.cname] = None
            THEN [self EXCEPT !.pc = "raised"]
            ELSE StartProcessReturn(self,
                   Result(TRUE, "already running", PROCS[self.cname]))]
    /\ started' = IF PROCS[self.cname] = None THEN started
                  ELSE [started EXCEPT ![self.cname] = PROCS[self.cname]]
    /\ UNCHANGED <<PROCS, alive, spawned, signalled, runVars, nreq, nover, winVars, decVars, rdVars>>

\* start_process, lines 35-41: subprocess.Popen spawns the child or raises
StartPopen(t) ==
    LET self == thread[t]
        pid  == Len(spawned) + 1
    IN
    /\ self.pc = "start_popen"
    /\ \/ /\ Len(spawned) < MaxSpawn
          /\ spawned' = Append(spawned, self.cname)
          /\ alive' = alive \cup {pid}
          /\ thread' = [thread EXCEPT ![t] =
                          [self EXCEPT !.pc = "start_record", !.p = pid,
                                       !.trace = Log(self, "popen", self.cname)]]
       \/ /\ thread' = [thread EXCEPT ![t] =
                          [self EXCEPT !.pc = "raised",
                                       !.trace = Log(self, "popen_failed", self.cname)]]
          /\ UNCHANGED <<spawned, alive>>
    /\ UNCHANGED <<PROCS, signalled, started, runVars, nreq, nover, winVars, decVars, rdVars>>

\* the handle of an exited child is not overwritten
StartRecordKeepsOld(t) ==
    LET self == thread[t] IN
    /\ self.pc = "start_record"
    /\ PROCS' = IF PROCS[self.cname] = None
                  THEN [PROCS EXCEPT ![self.cname] = self.p] ELSE PROCS
    /\ thread' = [thread EXCEPT ![t] =
                    StartProcessReturn(self, Result(TRUE, "Started", self.p))]
    /\ started' = [started EXCEPT ![self.cname] = self.p]
    /\ UNCHANGED <<alive, spawned, signalled, runVars, nreq, nover, winVars, decVars, rdVars>>

\* start_process, lines 42-43: PROCS[name] = p and the result
StartRecord(t) ==
    LET self == thread[t] IN
    /\ self.pc = "start_record"
    /\ PROCS' = [PROCS EXCEPT ![self.cname] = self.p]
    /\ thread' = [thread EXCEPT ![t] =
                    StartProcessReturn(self, Result(TRUE, "Started", self.p))]
    /\ started' = [started EXCEPT ![self.cname] = self.p]
    /\ UNCHANGED <<alive, spawned, signalled, runVars, nreq, nover, winVars, decVars, rdVars>>

WaitReturnUngated(self, ready) ==
    IF self.pc = "wait"
      THEN [self EXCEPT !.ok = ready, !.cname = StartOrder[2],
                        !.pc = "start_is_running",
                        !.trace = Log(self, IF ready THEN "ready" ELSE "not_ready",
                                      StartOrder[1])]
      ELSE [self EXCEPT !.payload.emotion_api_reachable = ready,
                        !.pc = "status_return"]

\* the handler continues after wait_for_emotion_api returned ready
\* (start(), lines 322-329; status_payload(), line 92)
WaitReturn(self, ready) ==
    IF self.pc = "wait"
      THEN IF ready
             THEN [self EXCEPT !.ok = TRUE, !.cname = StartOrder[2],
                               !.pc = "start_is_running",
                               !.trace = Log(self, "ready", StartOrder[1])]
             ELSE [self EXCEPT !.ok = FALSE, !.pc = "start_return",
                               !.res_bot = Result(FALSE, "Bot not started", None),
                               !.trace = Log(self, "not_ready", StartOrder[1])]
      ELSE [self EXCEPT !.payload.emotion_api_reachable = ready,
                        !.pc = "status_return"]

\* the timeout argument of the running wait_for_emotion_api call
Timeout(self) == IF self.pc = "wait" THEN StartTimeout ELSE StatusTimeout

\* what requests.get gives when the answer is not a 200: the connection is
\* refused, the request times out after RequestTimeout, or the status code
\* is another one
Failures == {"refused", "timeout", "status"}

\* the prober's clock stands still
ProbeRetryNoClock(self, a) == [self EXCEPT !.answer = a]

\* a non-200 status code raises out of the prober
ProbeRetryRaises(self, a) ==
    IF a = "status"
      THEN [self EXCEPT !.answer = a, !.pc = "raised"]
      ELSE [self EXCEPT !.answer = a,
              !.elapsed = self.elapsed + PollInterval
                          + (IF a = "timeout" THEN RequestTimeout ELSE 0)]

\* wait_for_emotion_api, lines 79-82: the answer is not a 200 (except
\* Exception: pass, or the if falls through), sleep and loop
ProbeRetry(self, a) ==
    [self EXCEPT !.answer = a,
       !.elapsed = self.elapsed + PollInterval
                   + (IF a = "timeout" THEN RequestTimeout ELSE 0)]

\* wait_for_emotion_api, lines 75-82: one turn of the loop.  A 200 answer
\* returns True; an exception or another status code sleeps and loops.
ProbeIter(t) ==
    LET self == thread[t] IN
    /\ self.pc \in {"wait", "status_probe"}
    /\ self.elapsed < Timeout(self)
    /\ \/ /\ ApiUp
          /\ thread' = [thread EXCEPT ![t] =
                         WaitReturn([self EXCEPT !.answer = "200"], TRUE)]
       \/ \E a \in Failures :
            thread' = [thread EXCEPT ![t] = ProbeRetry(self, a)]
    /\ UNCHANGED <<PROCS, alive, spawned, signalled, started, runVars, nreq, nover, winVars, decVars, rdVars>>

\* wait_for_emotion_api, lines 75 and 83: the loop ends, return False
ProbeExpire(t) ==
    LET self == thread[t] IN
    /\ self.pc \in {"wait", "status_probe"}
    /\ self.elapsed >= Timeout(self)
    /\ thread' = [thread EXCEPT ![t] = WaitReturn(self, FALSE)]
    /\ UNCHANGED <<PROCS, alive, spawned, signalled, started, runVars, nreq, nover, winVars, decVars, rdVars>>

StopRequest(t) ==
    /\ FreeThread(t)
    /\ Arrive
    /\ thread' = [thread EXCEPT ![t] =
                    [IdleThread EXCEPT !.pc = "stop_get", !.cname = StopOrder[1]]]
    /\ UNCHANGED <<PROCS, alive, spawned, signalled, started, runVars, winVars, decVars, rdVars>>

\* stop_process, lines 47-49: p = PROCS.get(name)
StopGet(t) ==
    LET self == [thread[t] EXCEPT !.entry = Enter("stop", thread[t].cname),
                                  !.p = PROCS[thread[t].cname],
                                  !.trace = Log(thread[t], "stop_process", thread[t].cname)]
    IN
    /\ thread[t].pc = "stop_get"
    /\ thread' = [thread EXCEPT ![t] =
          IF self.p = None
            THEN StopProcessReturn(self, Result(TRUE, "not running", None))
            ELSE [self EXCEPT !.pc = "stop_poll"]]
    /\ started' = [started EXCEPT ![self.cname] = None]
    /\ UNCHANGED <<PROCS, alive, spawned, signalled, runVars, nreq, nover, winVars, decVars, rdVars>>

\* the graceful request is sent without the liveness check
StopPollSignalsExited(t) ==
    LET self == thread[t] IN
    /\ self.pc = "stop_poll"
    /\ thread' = [thread EXCEPT ![t] =
          [self EXCEPT !.pc = "stop_grace",
                       !.trace = Log(self, "terminate", self.cname)]]
    /\ signalled' = signalled \cup {self.p}
    /\ UNCHANGED <<PROCS, alive, spawned, started, runVars, nreq, nover, winVars, decVars, rdVars>>

\* stop_process, lines 51 and 55-62: the liveness check, then the graceful
\* request (terminate / CTRL_BREAK), which may raise
StopPoll(t) ==
    LET self == thread[t] IN
    /\ self.pc = "stop_poll"
    /\ IF self.p \notin alive
         THEN /\ thread' = [thread EXCEPT ![t] = [self EXCEPT !.pc = "stop_clear_dead"]]
              /\ UNCHANGED signalled
         ELSE \/ /\ thread' = [thread EXCEPT ![t] =
                       [self EXCEPT !.pc = "stop_grace",
                                    !.trace = Log(self, "terminate", self.cname)]]
                 /\ signalled' = signalled \cup {self.p}
              \/ /\ thread' = [thread EXCEPT ![t] =
                       StopProcessReturn([self EXCEPT !.trace = Log(self, "raise", self.cname)],
                                         Result(FALSE, "Stop failed", None))]
                 /\ UNCHANGED signalled
    /\ UNCHANGED <<PROCS, alive, spawned, started, runVars, nreq, nover, winVars, decVars, rdVars>>

StopGraceNoKill(t) ==
    LET self == thread[t] IN
    /\ self.pc = "stop_grace"
    /\ thread' = [thread EXCEPT ![t] =
          [self EXCEPT !.pc = "stop_clear",
                       !.trace = Log(self, IF self.p \in alive THEN "alive" ELSE "exited",
                                     self.cname)]]
    /\ UNCHANGED <<PROCS, alive, spawned, signalled, started, runVars, nreq, nover, winVars, decVars, rdVars>>

\* stop_process, lines 62-65: after the grace period, poll again and kill
\* the child that is still alive; kill may raise
StopGrace(t) ==
    LET self == thread[t] IN
    /\ self.pc = "stop_grace"
    /\ IF self.p \in alive
         THEN \/ /\ alive' = alive \ {self.p}
                 /\ thread' = [thread EXCEPT ![t] =
                       [self EXCEPT !.pc = "stop_clear",
                                    !.trace = Append(Log(self, "alive", self.cname),
                                                     <<"kill", self.cname>>)]]
              \/ /\ thread' = [thread EXCEPT ![t] =
                       StopProcessReturn(
                         [self EXCEPT !.trace = Append(Log(self, "alive", self.cname),
                                                       <<"raise", self.cname>>)],
                         Result(FALSE, "Stop failed", None))]
                 /\ UNCHANGED alive
         ELSE /\ thread' = [thread EXCEPT ![t] =
                       [self EXCEPT !.pc = "stop_clear",
                                    !.trace = Log(self, "exited", self.cname)]]
              /\ UNCHANGED alive
    /\ UNCHANGED <<PROCS, spawned, signalled, started, runVars, nreq, nover, winVars, decVars, rdVars>>

StopClearKeeps(t) ==
    LET self == thread[t] IN
    /\ self.pc \in {"stop_clear", "stop_clear_dead"}
    /\ thread' = [thread EXCEPT ![t] =
          StopProcessReturn([self EXCEPT !.trace = Log(self, "clear", self.cname)],
             IF self.pc = "stop_clear" THEN Result(TRUE, "Stopped", None)
                                       ELSE Result(TRUE, "already stopped", None))]
    /\ UNCHANGED <<PROCS, alive, spawned, signalled, started, runVars, nreq, nover, winVars, decVars, rdVars>>

\* stop_process, lines 52-53 and 67-68: PROCS[name] = None and the result
StopClear(t) ==
    LET self == thread[t] IN
    /\ self.pc \in {"stop_clear", "stop_clear_dead"}
    /\ PROCS' = [PROCS EXCEPT ![self.cname] = None]
    /\ thread' = [thread EXCEPT ![t] =
          StopProcessReturn([self EXCEPT !.trace = Log(self, "clear", self.cname)],
             IF self.pc = "stop_clear" THEN Result(TRUE, "Stopped", None)
                                       ELSE Result(TRUE, "already stopped", None))]
    /\ UNCHANGED <<alive, spawned, signalled, started, runVars, nreq, nover, winVars, decVars, rdVars>>

StatusRequest(t) ==
    /\ FreeThread(t)
    /\ Arrive
    /\ thread' = [thread EXCEPT ![t] =
                    [IdleThread EXCEPT !.pc = "status_running", !.cname = "emotion"]]
    /\ UNCHANGED <<PROCS, alive, spawned, signalled, started, runVars, winVars, decVars, rdVars>>

\* the recorded processes of a service that a liveness check finds exited
FoundDead(name) == IF PROCS[name] # None /\ PROCS[name] \notin alive
                     THEN {PROCS[name]} ELSE {}

StatusRunningClears(t) ==
    LET self == thread[t]
        seen == [self EXCEPT !.payload.dead = @ \cup FoundDead(self.cname)]
    IN
    /\ self.pc = "status_running"
    /\ thread' = [thread EXCEPT ![t] =
          IF self.cname = "emotion"
            THEN [seen EXCEPT !.payload.emotion_running = is_running("emotion"),
                              !.cname = "bot"]
            ELSE [seen EXCEPT !.payload.bot_running = is_running("bot"),
                              !.cname = "emotion", !.pc = "status_pid"]]
    /\ PROCS' = IF is_running(self.cname) THEN PROCS
                ELSE [PROCS EXCEPT ![self.cname] = None]
    /\ UNCHANGED <<alive, spawned, signalled, started, runVars, nreq, nover, winVars, decVars, rdVars>>

\* status_payload, lines 88-89: "<name>_running": is_running(name)
StatusRunning(t) ==
    LET self == thread[t]
        seen == [self EXCEPT !.payload.dead = @ \cup FoundDead(self.cname)]
    IN
    /\ self.pc = "status_running"
    /\ thread' = [thread EXCEPT ![t] =
          IF self.cname = "emotion"
            THEN [seen EXCEPT !.payload.emotion_running = is_running("emotion"),
                              !.cname = "bot"]
            ELSE [seen EXCEPT !.payload.bot_running = is_running("bot"),
                              !.cname = "emotion", !.pc = "status_pid"]]
    /\ UNCHANGED <<PROCS, alive, spawned, signalled, started, runVars, nreq, nover, winVars, decVars, rdVars>>

\* after "<name>_pid" is set: the next pid, then the probe
StatusPidNext(self, pid) ==
    IF self.cname = "emotion"
      THEN [self EXCEPT !.payload.emotion_pid = pid, !.cname = "bot",
                        !.pc = "status_pid"]
      ELSE [self EXCEPT !.payload.bot_pid = pid, !.cname = "emotion",
                        !.pc = "status_probe", !.elapsed = 0]

\* status_payload, lines 90-91: the condition "if is_running(name)"
StatusPid(t) ==
    LET self == thread[t]
        seen == [self EXCEPT !.payload.dead = @ \cup FoundDead(self.cname)]
    IN
    /\ self.pc = "status_pid"
    /\ thread' = [thread EXCEPT ![t] =
          IF is_running(self.cname)
            THEN [seen EXCEPT !.pc = "status_pid_read"]
            ELSE StatusPidNext(seen, None)]
    /\ UNCHANGED <<PROCS, alive, spawned, signalled, started, runVars, nreq, nover, winVars, decVars, rdVars>>

\* status_payload, lines 90-91: the value PROCS[name].pid
StatusPidRead(t) ==
    LET self == thread[t] IN
    /\ self.pc = "status_pid_read"
    /\ thread' = [thread EXCEPT ![t] =
          IF PROCS[self.cname] = None
            THEN [self EXCEPT !.pc = "raised"]
            ELSE StatusPidNext(self, PROCS[self.cname])]
    /\ UNCHANGED <<PROCS, alive, spawned, signalled, started, runVars, nreq, nover, winVars, decVars, rdVars>>

\* the response is sent (jsonify, or the 500 of an exception that left the
\* handler) and the thread is free again
Finish(t) ==
    /\ thread[t].pc \in {"start_return", "stop_return", "status_return", "raised"}
    /\ thread' = [thread EXCEPT ![t] = IdleThread]
    /\ UNCHANGED <<PROCS, alive, spawned, signalled, started, runVars, nreq, nover, winVars, decVars, rdVars>>

\* a child exits on its own
ChildExit(pid) ==
    /\ pid \in alive
    /\ alive' = alive \ {pid}
    /\ UNCHANGED <<PROCS, spawned, signalled, thread, started, runVars, nreq, nover, winVars, decVars, rdVars>>

\* ---------------------------------------------------------- emotion_webcam.py
\* the labels and the confidence (in percent) a sample may carry
Emotions    == {"neutral", "happy"}
Confidences == {60}

DequeAppendDropsNewest(window, x) ==
    IF Len(window) >= WindowCapacity THEN window ELSE Append(window, x)

\* emotion_window = deque(maxlen=5); append drops the oldest sample of a
\* full deque, then adds the new one on the right
DequeAppend(window, x) ==
    IF Len(window) >= WindowCapacity
      THEN Append(Tail(window), x)
      ELSE Append(window, x)

\* the eviction of the oldest sample and the insertion of the new one are
\* two steps: a due sample first only evicts from a full window
WebcamFrameTorn(out, dt) ==
    LET t == now + dt IN
    /\ Len(appended) < MaxAppends
    /\ now' = t
    /\ IF t - last_sample_time >= SampleInterval
         THEN LET sample == [timestamp |-> t, emotion |-> out.emotion,
                             confidence |-> out.confidence]
              IN IF Len(emotion_window) >= WindowCapacity
                   THEN /\ emotion_window' = Tail(emotion_window)
                        /\ UNCHANGED <<appended, last_sample_time>>
                   ELSE /\ emotion_window' = Append(emotion_window, sample)
                        /\ appended' = Append(appended, sample)
                        /\ last_sample_time' = t
         ELSE UNCHANGED <<emotion_window, appended, last_sample_time>>
    /\ UNCHANGED <<ctlVars, decVars, rdVars>>

\* webcam_loop, lines 126-146: one frame is read and classified, and a
\* sample is appended when a second has passed since the last one
WebcamFrame(out, dt) ==
    LET t == now + dt IN
    /\ Len(appended) < MaxAppends
    /\ now' = t
    /\ IF t - last_sample_time >= SampleInterval
         THEN LET sample == [timestamp |-> t, emotion |-> out.emotion,
                             confidence |-> out.confidence]
              IN /\ emotion_window' = DequeAppend(emotion_window, sample)
                 /\ appended' = Append(appended, sample)
                 /\ last_sample_time' = t
         ELSE UNCHANGED <<emotion_window, appended, last_sample_time>>
    /\ UNCHANGED <<ctlVars, decVars, rdVars>>

\* a request thread of the producer's Flask server that serves no request;
\* since is the number of samples appended when its request arrived
IdleReader == [pc |-> "idle", window_size |-> 0, data |-> <<>>, since |-> 0]

\* GET /emotion arrives
EmotionRequest ==
    /\ reader.pc = "idle"
    /\ reader' = [IdleReader EXCEPT !.pc = "emotion_len", !.since = Len(appended)]
    /\ UNCHANGED <<ctlVars, winVars, decVars>>

\* get_emotion_window, line 184: len(emotion_window)
EmotionLen ==
    /\ reader.pc = "emotion_len"
    /\ reader' = [reader EXCEPT !.window_size = Len(emotion_window),
                                !.pc = "emotion_list"]
    /\ UNCHANGED <<ctlVars, winVars, decVars>>

\* get_emotion_window, line 185: list(emotion_window) copies the deque in
\* one call of the interpreter
EmotionList ==
    /\ reader.pc = "emotion_list"
    /\ reader' = [reader EXCEPT !.data = emotion_window, !.pc = "emotion_return"]
    /\ UNCHANGED <<ctlVars, winVars, decVars>>

\* GET /window arrives
WindowRequest ==
    /\ reader.pc = "idle"
    /\ reader' = [IdleReader EXCEPT !.pc = "window_list", !.since = Len(appended)]
    /\ UNCHANGED <<ctlVars, winVars, decVars>>

\* get_window, line 190: list(emotion_window)
WindowList ==
    /\ reader.pc = "window_list"
    /\ reader' = [reader EXCEPT !.data = emotion_window, !.pc = "window_return"]
    /\ UNCHANGED <<ctlVars, winVars, decVars>>

\* jsonify(...) answers the request
ReaderReturn ==
    /\ reader.pc \in {"emotion_return", "window_return"}
    /\ reader' = IdleReader
    /\ UNCHANGED <<ctlVars, winVars, decVars>>

\* --------------------------------------------------------- main_integrated.py
\* the decision policy is not running
DecOff ==
    /\ frames = <<>>
    /\ fetch = "ok"
    /\ dpc = "off"
    /\ decision = "none"
    /\ reply = "unasked"

\* the samples a fetched window may hold: f["emotion"] and f["confidence"]
\* (in percent), the two fields the decision reads
Samples ==
    { [emotion |-> "neutral", confidence |-> 90],
      [emotion |-> "neutral", confidence |-> 99],
      [emotion |-> "happy", confidence |-> 60],
      [emotion |-> "sad", confidence |-> 40],
      [emotion |-> "sad", confidence |-> 95],
      [emotion |-> "angry", confidence |-> 50],
      [emotion |-> "angry", confidence |-> 95] }

\* payload["data"]: a window of n samples as /emotion serves it
Windows(n) == [1..n -> Samples]

\* the answers of the oracle: response.text
Replies == {"happy", "sad", "angry", "fear", "disgust", "surprise",
            "neutral", "joy", " Happy\n", "SAD", "sad.", "i feel happy"}

\* str.strip(): leading and trailing whitespace is removed
Strip(text) == IF text = " Happy\n" THEN "Happy" ELSE text

\* str.lower()
Lower(text) ==
    CASE text = "Happy" -> "happy"
      [] text = "SAD"   -> "sad"
      [] OTHER          -> text

\* lines 99-103: the keys of counts, in the order of their first sample
RECURSIVE Keys(_)
Keys(fr) ==
    IF fr = <<>> THEN <<>>
    ELSE LET n    == Len(fr)
             rest == Keys(SubSeq(fr, 1, n - 1))
             emo  == Lower(fr[n].emotion)
         IN IF \E i \in DOMAIN rest : rest[i] = emo THEN rest ELSE Append(rest, emo)

\* lines 99-103: counts[emo], the confidences of a label in window order
RECURSIVE Counts(_, _)
Counts(fr, emo) ==
    IF fr = <<>> THEN <<>>
    ELSE IF Lower(Head(fr).emotion) = emo
           THEN <<Head(fr).confidence>> \o Counts(Tail(fr), emo)
           ELSE Counts(Tail(fr), emo)

\* max(item[1]): the largest confidence of a list
RECURSIVE MaxConf(_)
MaxConf(confs) ==
    IF Len(confs) = 1 THEN confs[1]
    ELSE LET m == MaxConf(Tail(confs))
         IN IF Head(confs) >= m THEN Head(confs) ELSE m

\* the oracle is asked as soon as the first label is neutral
AllNeutralFirst(keys) == keys[1] = "neutral"

\* line 106: list(counts.keys()) == ["neutral"]
AllNeutral(keys) == keys = <<"neutral">>

\* neutral is kept among the candidates
NonNeutralKeepsAll(keys) == keys

\* line 110: the keys that are not "neutral", order kept
NonNeutral(keys) == SelectSeq(keys, LAMBDA k : k # "neutral")

\* the last of the items with the largest key is kept
RECURSIVE MaxByLast(_, _, _, _)
MaxByLast(fr, keys, i, best) ==
    IF i > Len(keys) THEN best
    ELSE IF MaxConf(Counts(fr, keys[i])) >= MaxConf(Counts(fr, best))
           THEN MaxByLast(fr, keys, i + 1, keys[i])
           ELSE MaxByLast(fr, keys, i + 1, best)

\* lines 117-120: max(non_neutral.items(), key=...) goes through the items
\* in order and keeps the first one whose key is the largest
RECURSIVE MaxBy(_, _, _, _)
MaxBy(fr, keys, i, best) ==
    IF i > Len(keys) THEN best
    ELSE IF MaxConf(Counts(fr, keys[i])) > MaxConf(Counts(fr, best))
           THEN MaxBy(fr, keys, i + 1, keys[i])
           ELSE MaxBy(fr, keys, i + 1, best)

\* lines 109-122: the decision on a window with a label that is not neutral
Choose(fr) ==
    LET non_neutral == NonNeutral(Keys(fr)) IN
    IF Len(non_neutral) = 1
      THEN non_neutral[1]
      ELSE MaxBy(fr, non_neutral, 2, non_neutral[1])

\* an empty window is handed to the oracle
DetectEmotionAsksOnEmpty ==
    /\ dpc = "detect"
    /\ IF fetch # "ok"
         THEN decision' = "neutral" /\ dpc' = "done"
         ELSE IF frames = <<>> \/ AllNeutral(Keys(frames))
                THEN decision' = decision /\ dpc' = "llm"
                ELSE decision' = Choose(frames) /\ dpc' = "done"
    /\ UNCHANGED <<frames, fetch, reply, ctlVars, winVars, rdVars>>

\* detect_emotion, lines 87-126: the window is fetched and decided on; a
\* failed request and an empty window give "neutral"
DetectEmotion ==
    /\ dpc = "detect"
    /\ IF fetch # "ok" \/ frames = <<>>
         THEN decision' = "neutral" /\ dpc' = "done"
         ELSE IF AllNeutral(Keys(frames))
                THEN decision' = decision /\ dpc' = "llm"
                ELSE decision' = Choose(frames) /\ dpc' = "done"
    /\ UNCHANGED <<frames, fetch, reply, ctlVars, winVars, rdVars>>

\* the answer is returned without the membership test
AcceptAnything(text) == Lower(Strip(text))

\* lines 138-144: the answer is stripped and lowered, and kept if it is one
\* of the six labels
Accept(text) ==
    LET emotion == Lower(Strip(text)) IN
    IF emotion \in {"happy", "sad", "angry", "fear", "disgust", "surprise"}
      THEN emotion ELSE "neutral"

\* llm_emotion_fallback, lines 128-144: the oracle answers with a text or
\* the call raises
LlmFallback(answer) ==
    /\ dpc = "llm"
    /\ reply' = answer
    /\ decision' = IF answer = "raise" THEN "neutral" ELSE Accept(answer)
    /\ dpc' = "done"
    /\ UNCHANGED <<frames, fetch, ctlVars, winVars, rdVars>>

\* ------------------------------------------------------------------ claims
ResOf(self, name) == IF name = "emotion" THEN self.res_emotion ELSE self.res_bot

Has(seq, e) == \E i \in DOMAIN seq : seq[i] = e

\* the events of one service in a handler's trace
EventsOf(self, name) == SelectSeq(self.trace, LAMBDA e : e[2] = name)

\* the latest call of op on name by this thread has returned its result
CallDone(self, op, name) ==
    /\ self.entry.op = op
    /\ self.entry.name = name
    /\ ResOf(self, name) # NoResult

\* the child of a service spawned last
LastOf(name) ==
    LET S == {pid \in DOMAIN spawned : spawned[pid] = name}
    IN IF S = {} THEN None ELSE CHOOSE pid \in S : \A q \in S : q <= pid

\* a child between its Popen and the assignment PROCS[name] = p
InFlight(pid) == \E t \in Threads : thread[t].pc = "start_record" /\ thread[t].p = pid

\* C1: under any interleaving of start requests there is at most one live
\* child per service name, and every live child is the one recorded in
\* PROCS[name] (or is just being recorded by the call that spawned it).
C1_NoDoubleLaunch ==
    \A n \in Names :
        /\ Cardinality(LiveOf(n)) <= 1
        /\ \A pid \in LiveOf(n) : PROCS[n] = pid \/ InFlight(pid)

\* C2: a start_process(name) call that follows a successful start_process(name)
\* with nothing in between (the child of the first call is still running)
\* returns ok with the pid the first call returned, spawns nothing and leaves
\* PROCS[name] as it was.
C2_IdempotentStart ==
    \A t \in Threads, n \in Names :
        LET self == thread[t]
            e    == self.entry
        IN (CallDone(self, "start", n) /\ e.last # None /\ e.running)
             => /\ ResOf(self, n).ok
                /\ ResOf(self, n).pid = e.last
                /\ Len(spawned) = e.nspawned
                /\ PROCS[n] = e.last

C2_Witness ==
    \E t \in Threads, n \in Names :
        /\ CallDone(thread[t], "start", n)
        /\ thread[t].entry.last # None
        /\ thread[t].entry.running
        /\ ResOf(thread[t], n).message = "already running"

\* C3: in a /start the call that launches the bot comes only after the probe
\* of the emotion endpoint returned true; when the probe returned false the
\* bot is not launched, its result is ok=false with the message, and
\* emotion_api_ready is false.
C3_ReadinessGate ==
    \A t \in Threads :
        LET self == thread[t] IN
        /\ \A i \in DOMAIN self.trace :
              self.trace[i] = <<"start_process", "bot">>
                => /\ \E j \in 1..(i - 1) : self.trace[j] = <<"ready", "emotion">>
                   /\ self.ok
        /\ Has(self.trace, <<"not_ready", "emotion">>)
              => /\ EventsOf(self, "bot") = <<>>
                 /\ self.pc = "start_return"
                 /\ self.res_bot = Result(FALSE, "Bot not started", None)
                 /\ ~self.ok

C3_Witness ==
    \E t, u \in Threads :
        /\ Has(thread[t].trace, <<"popen", "bot">>)
        /\ thread[u].pc = "start_return"
        /\ Has(thread[u].trace, <<"not_ready", "emotion">>)

\* C4: in a /stop every step of the bot's stop (the graceful request, the
\* grace period, the forced kill, the clearing) and its return come before
\* the stop of the emotion service begins.
C4_StopOrder ==
    \A t \in Threads :
        LET self == thread[t] IN
        \A i \in DOMAIN self.trace :
            self.trace[i] = <<"stop_process", "emotion">>
              => /\ \E j \in 1..(i - 1) : self.trace[j] = <<"stop_done", "bot">>
                 /\ \A k \in DOMAIN self.trace : self.trace[k][2] = "bot" => k < i

C4_Witness ==
    \E t \in Threads :
        /\ Has(thread[t].trace, <<"kill", "bot">>)
        /\ Has(thread[t].trace, <<"stop_process", "emotion">>)

\* the supervisor has stopped the emotion service: its latest child got a
\* termination request and no emotion child is alive
EmotionStopped ==
    /\ LastOf("emotion") \in signalled
    /\ LiveOf("emotion") = {}

\* C5: the bot is never recorded running while the emotion service has been
\* stopped by the supervisor.
C5_BotNeverOutlives == ~(is_running("bot") /\ EmotionStopped)

\* C6: a stop_process(name) of a child that is still alive after the grace
\* period (no primitive raising) has sent the graceful request, polled again,
\* sent the kill, cleared PROCS[name] and returned ok=true; the child is dead
\* and is_running(name) is false.
C6_ForcedKill ==
    \A t \in Threads, n \in Names :
        LET self == thread[t] IN
        (/\ CallDone(self, "stop", n)
         /\ Has(self.trace, <<"alive", n>>)
         /\ ~Has(self.trace, <<"raise", n>>))
          => /\ EventsOf(self, n) = << <<"stop_process", n>>, <<"terminate", n>>,
                                       <<"alive", n>>, <<"kill", n>>,
                                       <<"clear", n>>, <<"stop_done", n>> >>
             /\ ResOf(self, n) = Result(TRUE, "Stopped", None)
             /\ PROCS[n] = None
             /\ ~is_running(n)
             /\ self.entry.procs \notin alive

C6_Witness ==
    \E t \in Threads, n \in Names :
        /\ CallDone(thread[t], "stop", n)
        /\ Has(thread[t].trace, <<"alive", n>>)
        /\ Has(thread[t].trace, <<"kill", n>>)

\* C7: stop_process(name) returns ok=false exactly when terminate or kill
\* raised, and then PROCS[name] is the identity found on entry; otherwise it
\* returns ok=true and PROCS[name] is None.
C7_StopFailsOnlyOnRaise ==
    \A t \in Threads, n \in Names :
        LET self == thread[t] IN
        CallDone(self, "stop", n)
          => /\ ~ResOf(self, n).ok <=> Has(self.trace, <<"raise", n>>)
             /\ ~ResOf(self, n).ok => (PROCS[n] = self.entry.procs /\ PROCS[n] # None)
             /\ ResOf(self, n).ok => PROCS[n] = None

C7_Witness ==
    \E t \in Threads :
        /\ CallDone(thread[t], "stop", "emotion")
        /\ ~thread[t].res_emotion.ok
        /\ thread[t].res_bot = Result(TRUE, "Stopped", None)

\* a start_process(name) call of this thread failed to launch
LaunchFailed(self, n) ==
    /\ self.entry.op = "start"
    /\ self.entry.name = n
    /\ Has(self.trace, <<"missing", n>>) \/ Has(self.trace, <<"popen_failed", n>>)

\* C8: a launch failure (script missing, or the spawn failing) is returned to
\* the caller as a result with ok=false, and PROCS[name] keeps its value.
C8_LaunchFailureReported ==
    \A t \in Threads, n \in Names :
        LET self == thread[t] IN
        LaunchFailed(self, n)
          => /\ self.pc # "raised"
             /\ ResOf(self, n) # NoResult
             /\ ~ResOf(self, n).ok
             /\ PROCS[n] = self.entry.procs

\* C9 as stated: after a status query no process that one of its liveness
\* checks found dead is still recorded in PROCS.
C9_StatusClearsDead ==
    \A t \in Threads :
        thread[t].pc = "status_return"
          => \A pid \in thread[t].payload.dead : PROCS[spawned[pid]] # pid

\* C9 as amended: a status query checks liveness anew and reports no pid for
\* a recorded process it found dead, but leaves that identity in PROCS.
C9_StatusKeepsDead ==
    \A t \in Threads :
        LET self == thread[t] IN
        self.pc = "status_return"
          => \A pid \in self.payload.dead :
                /\ PROCS[spawned[pid]] = pid
                /\ spawned[pid] = "emotion" => self.payload.emotion_pid = None
                /\ spawned[pid] = "bot" => self.payload.bot_pid = None

C9_Witness ==
    \E t \in Threads :
        /\ thread[t].pc = "status_return"
        /\ thread[t].payload.dead # {}

\* the last k elements of a sequence
LastK(seq, k) == SubSeq(seq, Len(seq) - k + 1, Len(seq))

Min(a, b) == IF a <= b THEN a ELSE b

\* C10: the window never holds more than 5 samples, and after n appends it
\* holds the last min(n, 5) appended samples, oldest first.
C10_WindowFifo ==
    /\ Len(emotion_window) <= 5
    /\ emotion_window = LastK(appended, Min(Len(appended), 5))

C10_Witness ==
    /\ Len(appended) = 7
    /\ emotion_window = SubSeq(appended, 3, 7)

\* the window detect_emotion decided on, once it has returned
Decided == dpc = "done" /\ fetch = "ok"

\* the labels of a window that are not neutral
Distinct(fr) == { fr[i].emotion : i \in DOMAIN fr } \ {"neutral"}

\* the largest confidence among the samples of a label
Peak(fr, l) ==
    LET cs == { fr[i].confidence : i \in { j \in DOMAIN fr : fr[j].emotion = l } }
    IN CHOOSE c \in cs : \A d \in cs : d <= c

\* the position of the first sample of a label
FirstAt(fr, l) ==
    LET is == { i \in DOMAIN fr : fr[i].emotion = l }
    IN CHOOSE i \in is : \A j \in is : i <= j

Sample(e, c) == [emotion |-> e, confidence |-> c]

\* C11: on a window with two or more distinct labels that are not neutral,
\* detect_emotion returns the one whose largest confidence is the largest,
\* and among several with that largest confidence the one seen first.
C11_MaxConfidenceWins ==
    (Decided /\ Cardinality(Distinct(frames)) >= 2) =>
        /\ decision \in Distinct(frames)
        /\ \A l \in Distinct(frames) :
              /\ Peak(frames, l) <= Peak(frames, decision)
              /\ Peak(frames, l) = Peak(frames, decision) =>
                     FirstAt(frames, decision) <= FirstAt(frames, l)

C11_Witness ==
    /\ Decided
    /\ frames = <<Sample("sad", 40), Sample("angry", 95), Sample("sad", 95),
                  Sample("angry", 50), Sample("angry", 50)>>
    /\ decision = "sad"

\* C12: on a window with exactly one distinct label that is not neutral,
\* detect_emotion returns that label whatever the confidences of the neutral
\* samples are, and the oracle is not asked.
C12_SingleLabelWins ==
    (Decided /\ Cardinality(Distinct(frames)) = 1) =>
        /\ Distinct(frames) = {decision}
        /\ reply = "unasked"

C12_Witness ==
    /\ Decided
    /\ frames = <<Sample("neutral", 90), Sample("neutral", 90),
                  Sample("neutral", 90), Sample("neutral", 90),
                  Sample("happy", 60)>>
    /\ decision = "happy"

\* C13: the oracle is asked exactly when the fetched window is not empty and
\* all of its samples are neutral; a window with a sample that is not
\* neutral never reaches it.
C13_OracleIffAllNeutral ==
    LET uninformative == frames # <<>> /\ Distinct(frames) = {} IN
    /\ dpc = "llm" => (fetch = "ok" /\ uninformative)
    /\ dpc = "done" => (reply # "unasked" <=> (fetch = "ok" /\ uninformative))

C13_Witness ==
    /\ Decided
    /\ frames = [i \in 1..5 |-> Sample("neutral", 99)]
    /\ reply = "surprise"
    /\ decision = "surprise"

\* what an answer of the oracle stands for: a label of the fixed set, or
\* nothing usable
Meaning ==
    [a \in Replies \cup {"raise"} |->
        CASE a \in {"happy", " Happy\n"} -> "happy"
          [] a \in {"sad", "SAD"}        -> "sad"
          [] a \in {"angry", "fear", "disgust", "surprise"} -> a
          [] OTHER -> "neutral"]

\* C14 as stated: the result of the fallback is the answer itself when the
\* answer is one of the six labels, and neutral for a raise and for every
\* other answer.
C14_ExactLabel ==
    (dpc = "done" /\ reply # "unasked") =>
        decision = IF reply \in {"happy", "sad", "angry", "fear", "disgust", "surprise"}
                     THEN reply ELSE "neutral"

\* C14: the fallback never raises and never gives a label outside the fixed
\* set: the result is the label the answer spells once blanks around it are
\* dropped and its letters lowered, when that is one of the six labels, and
\* neutral for a raise and for every other answer.
C14_NormalisedLabel ==
    (dpc = "done" /\ reply # "unasked") =>
        /\ decision \in {"happy", "sad", "angry", "fear", "disgust", "surprise", "neutral"}
        /\ decision = Meaning[reply]

C14_Witness ==
    /\ dpc = "done"
    /\ reply = " Happy\n"
    /\ decision = "happy"

\* C15: on an empty window detect_emotion returns neutral without asking
\* the oracle.
C15_EmptyIsNeutral ==
    (fetch = "ok" /\ frames = <<>> /\ dpc # "detect") =>
        /\ dpc = "done"
        /\ decision = "neutral"
        /\ reply = "unasked"

C15_Witness ==
    /\ Decided
    /\ frames = <<>>
    /\ decision = "neutral"

\* wait_for_emotion_api has returned ready to the handler of thread t
ProbeReturned(t, ready) ==
    \/ Has(thread[t].trace, <<IF ready THEN "ready" ELSE "not_ready", "emotion">>)
    \/ /\ thread[t].pc = "status_return"
       /\ thread[t].payload.emotion_api_reachable = ready

\* the timeout the handler of thread t gave to wait_for_emotion_api
ProbeTimeout(t) ==
    IF thread[t].pc = "status_return" THEN StatusTimeout ELSE StartTimeout

\* C16: wait_for_emotion_api never raises: a refused connection, a request
\* that timed out and a status code other than 200 are retried.  It returns
\* true at once on the first 200, and it returns false only when no 200 was
\* seen and the elapsed time has reached the timeout.
C16_ProberNeverRaises ==
    \A t \in Threads :
        /\ thread[t].pc = "raised" => thread[t].answer \notin Failures
        /\ thread[t].pc \in {"wait", "status_probe"} => thread[t].answer # "200"
        /\ ProbeReturned(t, TRUE) => thread[t].answer = "200"
        /\ thread[t].answer = "200" => ProbeReturned(t, TRUE)
        /\ ProbeReturned(t, FALSE) =>
              /\ thread[t].answer # "200"
              /\ thread[t].elapsed >= ProbeTimeout(t)

C16_Witness ==
    \E t \in Threads :
        /\ ProbeReturned(t, TRUE)
        /\ thread[t].answer = "200"
        /\ Has(thread[t].trace, <<"ready", "emotion">>)
        /\ thread[t].elapsed = PollInterval

\* C18: no handler of /start, /stop or /status is ended by an exception:
\* each returns its structured result.
C18_NeverRaises ==
    \A t \in Threads : thread[t].pc # "raised"

\* C20: status_payload returns within the timeout it gives its readiness
\* probe, also when nothing answers on the producer's port.
C20_StatusWithinBound ==
    \A t \in Threads :
        thread[t].pc = "status_return" => thread[t].elapsed <= StatusTimeout

\* the window as it is once n samples have been appended
WindowAfter(n) == LastK(SubSeq(appended, 1, n), Min(n, WindowCapacity))

\* C17: the list a reader gets from /emotion or /window is the whole window
\* as it was after one of the appends made so far and not before the
\* request arrived: never a window between eviction and insertion.
C17_WholeWindowSnapshot ==
    reader.pc \in {"emotion_return", "window_return"} =>
        \E n \in reader.since..Len(appended) : reader.data = WindowAfter(n)

C17_Witness ==
    /\ reader.pc = "emotion_return"
    /\ reader.since = WindowCapacity
    /\ Len(appended) = WindowCapacity + 2
    /\ reader.data = WindowAfter(WindowCapacity + 1)

\* C19: a stop_process(name) that sets PROCS[name] = None clears the handle
\* it read itself, never one a concurrent start_process(name) recorded in
\* the meantime.
C19_StopClearsOwnHandle ==
    [][\A t \in Threads :
          LET self == thread[t] IN
          ( /\ self.pc \in {"stop_clear", "stop_clear_dead"}
            /\ thread'[t] # self
            /\ PROCS[self.cname] # None )
          => PROCS[self.cname] = self.p]_vars

\* C24: in every status payload the pid of a service is set exactly when
\* its running flag is true.
C24_PidIffRunning ==
    \A t \in Threads :
        thread[t].pc = "status_return" =>
            LET payload == thread[t].payload IN
            /\ payload.emotion_pid # None <=> payload.emotion_running
            /\ payload.bot_pid # None <=> payload.bot_running

\* C25: in every response of /emotion, window_size is the number of samples
\* in data.
C25_SizeMatchesData ==
    reader.pc = "emotion_return" => reader.window_size = Len(reader.data)

\* the latest stop_process(n) of a handler sent a signal to the child
Signalled(self, n) ==
    \/ Has(self.trace, <<"terminate", n>>)
    \/ Has(self.trace, <<"kill", n>>)

\* C22: a stop_process(name) that finds no process recorded, or finds the
\* recorded process exited, sends no signal and returns ok=true; the first
\* leaves PROCS alone and the second clears PROCS[name].  No kill is sent to
\* a child that exited during the grace period.
C22_TrivialStops ==
    \A t \in Threads, n \in Names :
        LET self == thread[t] IN
        /\ (CallDone(self, "stop", n) /\ ~self.entry.running) =>
              /\ ResOf(self, n).ok
              /\ ~Signalled(self, n)
              /\ PROCS[n] = None
              /\ self.entry.procs = None => ~Has(self.trace, <<"clear", n>>)
              /\ self.entry.procs # None => Has(self.trace, <<"clear", n>>)
        /\ Has(self.trace, <<"exited", n>>) => ~Has(self.trace, <<"kill", n>>)

C22_Witness ==
    \E t \in Threads :
        LET self == thread[t] IN
        /\ self.pc = "stop_return"
        /\ self.res_bot = Result(TRUE, "not running", None)
        /\ self.res_emotion = Result(TRUE, "already stopped", None)
        /\ self.entry.procs # None
        /\ PROCS["emotion"] = None

\* C23: a start_process(name) that finds the service not running (never
\* started, stopped, or exited on its own) and whose script exists and whose
\* spawn succeeds, spawns a new child, records it in PROCS[name] and returns
\* ok=true with the pid of that child.
C23_HandleReusable ==
    \A t \in Threads, n \in Names :
        LET self == thread[t]
            res  == ResOf(self, n)
        IN
        (CallDone(self, "start", n) /\ ~self.entry.running /\ ~LaunchFailed(self, n)) =>
            /\ res.ok
            /\ res.pid \in DOMAIN spawned
            /\ res.pid > self.entry.nspawned
            /\ res.pid # self.entry.procs
            /\ spawned[res.pid] = n
            /\ PROCS[n] = res.pid

C23_Witness ==
    \E t \in Threads :
        LET self == thread[t] IN
        /\ CallDone(self, "start", "emotion")
        /\ spawned = <<"emotion", "emotion", "emotion">>
        /\ signalled = {2}
        /\ self.res_emotion = Result(TRUE, "Started", 3)
        /\ PROCS["emotion"] = 3

\* C21: the handler of /start does not stay in the readiness wait, nor
\* anywhere else, for ever: once it runs it comes to its end, where the
\* response is sent.
C21_StartTerminates ==
    \A t \in Threads :
        (thread[t].pc \in {"start_is_running", "start_existing", "start_popen",
                           "start_record", "wait"})
            ~> (thread[t].pc \in {"start_return", "raised"})

C21_Witness ==
    \E t \in Threads :
        /\ thread[t].pc = "start_return"
        /\ Has(thread[t].trace, <<"not_ready", "emotion">>)
        /\ thread[t].answer = "timeout"
        /\ thread[t].elapsed >= StartTimeout

Init ==
    /\ PROCS = InitPROCS
    /\ alive = {}
    /\ spawned = <<>>
    /\ signalled = {}
    /\ started = [n \in Names |-> None]
    /\ thread = [t \in Threads |-> IdleThread]
    /\ active = Threads
    /\ budget = MaxRequests
    /\ nreq = 0
    /\ nover = 0
    /\ emotion_window = <<>>
    /\ appended = <<>>
    /\ now = 0
    /\ last_sample_time = 0
    /\ DecOff
    /\ reader = IdleReader

Next ==
    \/ \E t \in active : StartRequest(t)
    \/ \E t \in active : StartIsRunning(t)
    \/ \E t \in active : StartExisting(t)
    \/ \E t \in active : StartPopen(t)
    \/ \E t \in active : StartRecord(t)
    \/ \E t \in active : ProbeIter(t)
    \/ \E t \in active : ProbeExpire(t)
    \/ \E t \in active : StopRequest(t)
    \/ \E t \in active : StopGet(t)
    \/ \E t \in active : StopPoll(t)
    \/ \E t \in active : StopGrace(t)
    \/ \E t \in active : StopClear(t)
    \/ \E t \in active : StatusRequest(t)
    \/ \E t \in active : StatusRunning(t)
    \/ \E t \in active : StatusPid(t)
    \/ \E t \in active : StatusPidRead(t)
    \/ \E t \in active : Finish(t)
    \/ \E pid \in Pids : ChildExit(pid)

Spec == Init /\ [][Next]_vars

\* one request at a time: a single handler thread
SeqInit ==
    /\ PROCS = InitPROCS
    /\ alive = {}
    /\ spawned = <<>>
    /\ signalled = {}
    /\ started = [n \in Names |-> None]
    /\ thread = [t \in Threads |-> IdleThread]
    /\ active = {1}
    /\ budget = MaxSeqRequests
    /\ nreq = 0
    /\ nover = 0
    /\ emotion_window = <<>>
    /\ appended = <<>>
    /\ now = 0
    /\ last_sample_time = 0
    /\ DecOff
    /\ reader = IdleReader

SeqSpec == SeqInit /\ [][Next]_vars

\* the producer process alone
WinInit ==
    /\ PROCS = InitPROCS
    /\ alive = {}
    /\ spawned = <<>>
    /\ signalled = {}
    /\ started = [n \in Names |-> None]
    /\ thread = [t \in Threads |-> IdleThread]
    /\ active = {}
    /\ budget = 0
    /\ nreq = 0
    /\ nover = 0
    /\ emotion_window = <<>>
    /\ appended = <<>>
    /\ now = 0
    /\ last_sample_time = 0
    /\ DecOff
    /\ reader = IdleReader

WinNext ==
    \E e \in Emotions, c \in Confidences, dt \in 1..2 :
        WebcamFrame([emotion |-> e, confidence |-> c], dt)

WinSpec == WinInit /\ [][WinNext]_vars

\* a step of the handler that thread t runs
HandlerStep(t) ==
    \/ StartIsRunning(t)
    \/ StartExisting(t)
    \/ StartPopen(t)
    \/ StartRecord(t)
    \/ ProbeIter(t)
    \/ ProbeExpire(t)
    \/ StopGet(t)
    \/ StopPoll(t)
    \/ StopGrace(t)
    \/ StopClear(t)
    \/ StatusRunning(t)
    \/ StatusPid(t)
    \/ StatusPidRead(t)
    \/ Finish(t)

\* a handler thread that can take a step is scheduled in the end
FairSeqSpec == SeqSpec /\ \A t \in Threads : WF_vars(HandlerStep(t))

\* three requests on two threads: a start, then a stop and a start at once
RaceInit ==
    /\ PROCS = InitPROCS
    /\ alive = {}
    /\ spawned = <<>>
    /\ signalled = {}
    /\ started = [n \in Names |-> None]
    /\ thread = [t \in Threads |-> IdleThread]
    /\ active = Threads
    /\ budget = MaxRaceRequests
    /\ nreq = 0
    /\ nover = 0
    /\ emotion_window = <<>>
    /\ appended = <<>>
    /\ now = 0
    /\ last_sample_time = 0
    /\ DecOff
    /\ reader = IdleReader

RaceSpec == RaceInit /\ [][Next]_vars

\* requests for the window while the producer appends to it
ReadNext ==
    \/ \E c \in Confidences, dt \in 1..2 :
          WebcamFrame([emotion |-> "happy", confidence |-> c], dt)
    \/ EmotionRequest
    \/ EmotionLen
    \/ EmotionList
    \/ WindowRequest
    \/ WindowList
    \/ ReaderReturn

ReadSpec == WinInit /\ [][ReadNext]_vars

\* the decision policy on every window the producer may serve
DecInit ==
    /\ PROCS = InitPROCS
    /\ alive = {}
    /\ spawned = <<>>
    /\ signalled = {}
    /\ started = [n \in Names |-> None]
    /\ thread = [t \in Threads |-> IdleThread]
    /\ active = {}
    /\ budget = 0
    /\ nreq = 0
    /\ nover = 0
    /\ emotion_window = <<>>
    /\ appended = <<>>
    /\ now = 0
    /\ last_sample_time = 0
    /\ \E n \in 0..WindowCapacity : frames \in Windows(n)
    /\ fetch \in {"ok", "status", "raise"}
    /\ dpc = "detect"
    /\ decision = "none"
    /\ reply = "unasked"
    /\ reader = IdleReader

DecNext ==
    \/ DetectEmotion
    \/ \E answer \in Replies \cup {"raise"} : LlmFallback(answer)

DecSpec == DecInit /\ [][DecNext]_vars
====
